---- MODULE Spec2Model ----
(***************************************************************************)
(* Job-application form: field validators, submission gate and navigation  *)
(* guard of src/script.js, as a state machine over the DOM state the       *)
(* script reads and writes.                                                *)
(*                                                                         *)
(* Strings the script inspects character by character (field values, file  *)
(* names) are sequences of one-character strings; strings it only assigns  *)
(* (messages, labels) are TLA+ strings.  One action is one event handler   *)
(* run to completion (the browser's event loop is single-threaded).        *)
(***************************************************************************)
EXTENDS Integers, Sequences, FiniteSets, TLC

VARIABLES
    fullName,        \* fullName.value
    email,           \* email.value
    cover,           \* cover.value
    portfolio,       \* portfolio.value
    resume,          \* resume.files[0], or NoFile when resume.files is empty
    errName, errEmail, errCover, errPortfolio, errResume,   \* error nodes
    filePreview,     \* [hidden, text]
    submitBtn,       \* [disabled, text]
    formStatus,      \* [text, color]
    isDirty,         \* the module-wide dirty flag
    timers,          \* number of setTimeout callbacks scheduled and not yet run
    defaultPrevented,\* outcome of the beforeunload event just dispatched
    lastRun,         \* history: outcome of the latest run of each validator
    clearedSince,    \* history: clear-file ran after the latest validateResume
    lastEvent        \* history: the handler that ran last

values == <<fullName, email, cover, portfolio, resume>>
errs   == <<errName, errEmail, errCover, errPortfolio, errResume>>
vars   == <<fullName, email, cover, portfolio, resume,
            errName, errEmail, errCover, errPortfolio, errResume,
            filePreview, submitBtn, formStatus, isDirty, timers,
            defaultPrevented, lastRun, clearedSince, lastEvent>>

----------------------------------------------------------------------------
(* Configuration *)

MAX_FILE_BYTES == 2 * 1024 * 1024

ALLOWED_MIME == { "application/pdf",
                  "application/msword",
                  "application/vnd.openxmlformats-officedocument.wordprocessingml.document" }

ALLOWED_EXT == { <<"p","d","f">>, <<"d","o","c">>, <<"d","o","c","x">> }

MinNameLen == 2
MinCoverLen == 20

----------------------------------------------------------------------------
(* Bounds of the inputs the model draws *)

MaxPad == 2          \* leading / trailing blanks put around a cover letter
MaxCore == 21        \* longest cover-letter body drawn
MaxDelta == 2        \* file sizes drawn this close around a size boundary
MaxTimers == 2       \* cap on simultaneously pending timers

----------------------------------------------------------------------------
(* Characters and strings *)

UpperCase == <<"A","B","C","D","E","F","G","H","I","J","K","L","M",
               "N","O","P","Q","R","S","T","U","V","W","X","Y","Z">>
LowerCase == <<"a","b","c","d","e","f","g","h","i","j","k","l","m",
               "n","o","p","q","r","s","t","u","v","w","x","y","z">>
Digits == {"0","1","2","3","4","5","6","7","8","9"}

Range(s) == { s[i] : i \in 1..Len(s) }

IsUpper(c) == c \in Range(UpperCase)
IsAlpha(c) == c \in Range(UpperCase) \cup Range(LowerCase)

\* String.prototype.toLowerCase, one character
LowerChar(c) ==
    IF IsUpper(c)
    THEN LowerCase[CHOOSE i \in 1..Len(UpperCase) : UpperCase[i] = c]
    ELSE c

toLowerCase(s) == [i \in 1..Len(s) |-> LowerChar(s[i])]

\* the characters the regular expression class \s and trim() treat as blank
IsSpace(c) == c \in {" ", "\t", "\n"}

\* String.prototype.trim
RECURSIVE TrimLeft(_)
TrimLeft(s) ==
    IF s # <<>> /\ IsSpace(Head(s)) THEN TrimLeft(Tail(s)) ELSE s

RECURSIVE TrimRight(_)
TrimRight(s) ==
    IF s # <<>> /\ IsSpace(s[Len(s)])
    THEN TrimRight(SubSeq(s, 1, Len(s) - 1))
    ELSE s

trim(s) == TrimRight(TrimLeft(s))

\* a character sequence as the string a template literal splices in
RECURSIVE Join(_)
Join(s) == IF s = <<>> THEN "" ELSE Head(s) \o Join(Tail(s))

\* n copies of the character c
Rep(c, n) == [i \in 1..n |-> c]

----------------------------------------------------------------------------
(* helpers *)

\* what showError / clearError leave in an error node
showError(msg) == [text |-> msg, hidden |-> FALSE]
clearError == [text |-> "", hidden |-> TRUE]

\* Number.prototype.toFixed(1) of bytes/unit for unit a power of two: the
\* quotient is exact in a double, and toFixed picks the nearest tenth, the
\* larger one on a tie.
toFixed1(bytes, unit) ==
    LET tenths == (bytes * 10 * 2 + unit) \div (2 * unit)
    IN  ToString(tenths \div 10) \o "." \o ToString(tenths % 10)

prettyBytes(bytes) ==
    IF bytes < 1024 THEN ToString(bytes) \o " B"
    ELSE IF bytes < 1024 * 1024 THEN toFixed1(bytes, 1024) \o " KB"
    ELSE toFixed1(bytes, 1024 * 1024) \o " MB"

\* position of the last '.' of filename, 0 when there is none
LastDot(filename) ==
    IF \E i \in 1..Len(filename) : filename[i] = "."
    THEN CHOOSE i \in 1..Len(filename) :
            /\ filename[i] = "."
            /\ \A j \in (i+1)..Len(filename) : filename[j] # "."
    ELSE 0

getExt(filename) ==
    IF LastDot(filename) > 0
    THEN toLowerCase(SubSeq(filename, LastDot(filename) + 1, Len(filename)))
    ELSE <<>>

----------------------------------------------------------------------------
(* messages *)

MsgNameRequired == "Full name is required."
MsgNameShort == "Please enter your full name."
MsgEmailRequired == "Email is required."
MsgEmailInvalid == "Please enter a valid email address."
MsgCoverShort == "If provided, cover letter should be at least 20 characters."
MsgPortfolioScheme == "Portfolio URL must use http or https."
MsgPortfolioInvalid == "Please enter a valid URL for your portfolio."
MsgResumeRequired == "Resume is required. Attach a PDF or Word document."
MsgResumeTooLarge == "File is too large - max is " \o prettyBytes(MAX_FILE_BYTES) \o "."
MsgResumeType == "Invalid file type. Allowed: .pdf, .doc, .docx"
MsgFixErrors == "Please fix the highlighted errors."
MsgSubmitted == "Application submitted successfully"
LabelSubmit == "Submit application"
LabelChecking == "Checking..."

\* a validator's outcome: its return value and the message it showed
Pass == [ok |-> TRUE, msg |-> ""]
Fail(m) == [ok |-> FALSE, msg |-> m]

----------------------------------------------------------------------------
(* the validators' decisions *)

NameOutcome(value) ==
    LET v == trim(value)
    IN  IF v = <<>> THEN Fail(MsgNameRequired)
        ELSE IF Len(v) < MinNameLen THEN Fail(MsgNameShort)
        ELSE Pass

\* [^\s@]+
IsLocalRun(s) ==
    /\ s # <<>>
    /\ \A i \in 1..Len(s) : ~IsSpace(s[i]) /\ s[i] # "@"

\* /^[^\s@]+@[^\s@]+\.[^\s@]+$/ : some '@' and some later '.' split v into
\* three non-empty runs free of blanks and '@'
EmailRe(v) ==
    \E a \in 1..Len(v) : \E d \in (a+1)..Len(v) :
        /\ v[a] = "@"
        /\ v[d] = "."
        /\ IsLocalRun(SubSeq(v, 1, a - 1))
        /\ IsLocalRun(SubSeq(v, a + 1, d - 1))
        /\ IsLocalRun(SubSeq(v, d + 1, Len(v)))

EmailOutcome(value) ==
    LET v == trim(value)
    IN  IF v = <<>> THEN Fail(MsgEmailRequired)
        ELSE IF ~EmailRe(v) THEN Fail(MsgEmailInvalid)
        ELSE Pass

\* mutant: the length test off by one
CoverOutcomeInclusive(value) ==
    LET v == trim(value)
    IN  IF v = <<>> THEN Pass
        ELSE IF Len(v) <= MinCoverLen THEN Fail(MsgCoverShort)
        ELSE Pass

CoverOutcome(value) ==
    LET v == trim(value)
    IN  IF v = <<>> THEN Pass
        ELSE IF Len(v) < MinCoverLen THEN Fail(MsgCoverShort)
        ELSE Pass

\* new URL(v) without a base, as far as the validator looks: the scheme is
\* an ASCII letter followed by letters, digits, '+', '-', '.', up to the
\* first ':'; a string with no such scheme does not parse.  The special
\* schemes need a non-empty host with no blank in it.
SchemeEnd(v) ==
    IF \E i \in 2..Len(v) :
          /\ v[i] = ":"
          /\ IsAlpha(v[1])
          /\ \A j \in 2..(i-1) : IsAlpha(v[j]) \/ v[j] \in Digits \cup {"+", "-", "."}
    THEN CHOOSE i \in 2..Len(v) :
          /\ v[i] = ":"
          /\ \A j \in 1..(i-1) : v[j] # ":"
    ELSE 0

SpecialSchemes ==
    { <<"h","t","t","p">>, <<"h","t","t","p","s">>, <<"f","t","p">>,
      <<"w","s">>, <<"w","s","s">> }

RECURSIVE SkipSlashes(_)
SkipSlashes(s) ==
    IF s # <<>> /\ Head(s) \in {"/", "\\"} THEN SkipSlashes(Tail(s)) ELSE s

RECURSIVE HostOf(_)
HostOf(s) ==
    IF s = <<>> \/ Head(s) \in {"/", "\\", "?", "#"} THEN <<>>
    ELSE <<Head(s)>> \o HostOf(Tail(s))

\* the parsed URL's protocol ("http:" as <<h,t,t,p,:>>), or <<>> when the
\* constructor throws
URLProtocol(v) ==
    LET e == SchemeEnd(v)
        scheme == toLowerCase(SubSeq(v, 1, e - 1))
        host == HostOf(SkipSlashes(SubSeq(v, e + 1, Len(v))))
    IN  IF e = 0 THEN <<>>
        ELSE IF scheme \in SpecialSchemes
                /\ (host = <<>> \/ \E i \in 1..Len(host) : IsSpace(host[i]))
             THEN <<>>
        ELSE scheme \o <<":">>

PortfolioOutcome(value) ==
    LET v == trim(value)
    IN  IF v = <<>> THEN Pass
        ELSE IF URLProtocol(v) = <<>> THEN Fail(MsgPortfolioInvalid)
        ELSE IF URLProtocol(v) \notin { <<"h","t","t","p",":">>, <<"h","t","t","p","s",":">> }
             THEN Fail(MsgPortfolioScheme)
        ELSE Pass

NoFile == [name |-> <<>>, size |-> -1, type |-> "none"]

\* mutant: the size test rejects a file of exactly the maximum size
ResumeOutcomeInclusive(f) ==
    IF f = NoFile THEN Fail(MsgResumeRequired)
    ELSE IF f.size >= MAX_FILE_BYTES THEN Fail(MsgResumeTooLarge)
    ELSE IF ~(f.type \in ALLOWED_MIME \/ getExt(f.name) \in ALLOWED_EXT)
         THEN Fail(MsgResumeType)
    ELSE Pass

ResumeOutcome(f) ==
    IF f = NoFile THEN Fail(MsgResumeRequired)
    ELSE IF f.size > MAX_FILE_BYTES THEN Fail(MsgResumeTooLarge)
    ELSE IF ~(f.type \in ALLOWED_MIME \/ getExt(f.name) \in ALLOWED_EXT)
         THEN Fail(MsgResumeType)
    ELSE Pass

PreviewText(f) == "Selected: " \o Join(f.name) \o " (" \o prettyBytes(f.size) \o ")"

----------------------------------------------------------------------------
(* the inputs drawn *)

Body(n) == Rep("x", n)

NameInputs == { <<>>, <<" ", "A">>, <<"A", "l">> }

EmailInputs == { <<>>, <<"a", "@", "b">>, <<"a", "@", "b", ".", "c">> }

CoverInputs == { <<>>, Body(MinCoverLen - 1), Body(MinCoverLen) }

PortfolioInputs ==
    { <<>>,
      <<"h","t","t","p","s",":","/","/","e","x","a","m","p","l","e",".","c","o","m">>,
      <<"f","t","p",":","/","/","x",".","c","o","m">>,
      <<"n","o","t"," ","a"," ","u","r","l">> }

\* cover letters for the validator alone: a body of n characters, with or
\* without a blank inside it, between leading and trailing blanks
BodyWithBlank(n) == [i \in 1..n |-> IF i = 2 /\ n > 2 THEN " " ELSE "x"]

CoverProbes ==
    { Rep(" ", l) \o b \o Rep(" ", r) :
        l \in 0..MaxPad, r \in 0..MaxPad,
        b \in { Body(n) : n \in 0..MaxCore } \cup { BodyWithBlank(n) : n \in 0..MaxCore } }

File(n, s, t) == [name |-> n, size |-> s, type |-> t]

\* files for the validator alone
ProbeNames ==
    { <<"r","e","s","u","m","e",".","P","D","F">>,
      <<"r","e","s","u","m","e",".","t","x","t">>,
      <<"p","d","f">>,
      <<"c","v",".","p","d","f",".","t","x","t">>,
      <<"c","v",".","t","x","t",".","D","o","c","X">>,
      <<".","d","o","c">>,
      <<"c","v",".","p","d","f","."," ">>,
      <<"c","v",".","d","o","c","s">> }

ProbeTypes == ALLOWED_MIME \cup {"", "text/plain"}

ProbeSizes ==
    { b + d : b \in {1024, 1024 * 1024, MAX_FILE_BYTES}, d \in (0 - MaxDelta)..MaxDelta }
        \cup {0}

FileProbes ==
    { File(n, s, t) : n \in ProbeNames, s \in ProbeSizes, t \in ProbeTypes } \cup {NoFile}

FileInputs ==
    { NoFile,
      File(<<"c","v",".","p","d","f">>, 1536, "application/pdf"),
      File(<<"r","e","s","u","m","e",".","P","D","F">>, MAX_FILE_BYTES, ""),
      File(<<"c","v",".","p","d","f">>, MAX_FILE_BYTES + 1, "application/pdf"),
      File(<<"r","e","s","u","m","e",".","t","x","t">>, 512, "text/plain") }

----------------------------------------------------------------------------
(* state after the script has run on the loaded page *)

Fields == {"name", "email", "cover", "portfolio", "resume"}

\* The page's markup, which the script only looks up: the controls empty,
\* the error nodes and the preview line hidden and empty, the submit
\* control enabled under the label the script restores, no status.
PageAsLoaded ==
    /\ fullName = <<>>
    /\ email = <<>>
    /\ cover = <<>>
    /\ portfolio = <<>>
    /\ resume = NoFile
    /\ errName = clearError
    /\ errEmail = clearError
    /\ errCover = clearError
    /\ errPortfolio = clearError
    /\ errResume = clearError
    /\ filePreview = [hidden |-> TRUE, text |-> ""]
    /\ submitBtn = [disabled |-> FALSE, text |-> LabelSubmit]
    /\ formStatus = [text |-> "", color |-> ""]

Init ==
    /\ PageAsLoaded
    /\ isDirty = FALSE
    /\ timers = 0
    /\ defaultPrevented = FALSE
    /\ lastRun = [f \in Fields |-> <<>>]
    /\ clearedSince = FALSE
    /\ lastEvent = "load"

----------------------------------------------------------------------------
(* validators: the error node each leaves, from the value it reads *)

\* The validators' decisions on the values drawn, computed once.
NameResult == [v \in NameInputs |-> NameOutcome(v)]
EmailResult == [v \in EmailInputs |-> EmailOutcome(v)]
CoverResult == [v \in CoverInputs \cup CoverProbes |-> CoverOutcome(v)]
PortfolioResult == [v \in PortfolioInputs |-> PortfolioOutcome(v)]
ResumeResult == [f \in FileInputs \cup FileProbes |-> ResumeOutcome(f)]
PreviewLine == [f \in FileInputs \cup FileProbes |-> PreviewText(f)]

\* mutant: a failing path returns false without showing its message
ErrorNodeSilent(outcome) == clearError

\* every path of a validator ends in showError + return false, or in
\* clearError + return true
ErrorNode(outcome) == IF outcome.ok THEN clearError ELSE showError(outcome.msg)

validateName(v) == ErrorNode(NameResult[v])
validateEmail(v) == ErrorNode(EmailResult[v])
validateCover(v) == ErrorNode(CoverResult[v])
validatePortfolio(v) == ErrorNode(PortfolioResult[v])
validateResume(f) == ErrorNode(ResumeResult[f])

\* the preview line validateResume leaves
ResumePreview(f, old) ==
    IF ResumeResult[f].ok
    THEN [hidden |-> FALSE, text |-> PreviewLine[f]]
    ELSE [old EXCEPT !.hidden = TRUE]

----------------------------------------------------------------------------
(* input and change listeners *)

\* the form's own input listener: every input event bubbles to it
MarkDirty == TRUE

Ran(field, outcome) == [lastRun EXCEPT ![field] = <<outcome>>]

InputName(v) ==
    /\ fullName' = v
    /\ errName' = validateName(v)
    /\ isDirty' = MarkDirty
    /\ lastRun' = Ran("name", NameResult[v])
    /\ lastEvent' = "input"
    /\ defaultPrevented' = FALSE
    /\ UNCHANGED <<email, cover, portfolio, resume, errEmail, errCover,
                   errPortfolio, errResume, filePreview, submitBtn,
                   formStatus, timers, clearedSince>>

InputEmail(v) ==
    /\ email' = v
    /\ errEmail' = validateEmail(v)
    /\ isDirty' = MarkDirty
    /\ lastRun' = Ran("email", EmailResult[v])
    /\ lastEvent' = "input"
    /\ defaultPrevented' = FALSE
    /\ UNCHANGED <<fullName, cover, portfolio, resume, errName, errCover,
                   errPortfolio, errResume, filePreview, submitBtn,
                   formStatus, timers, clearedSince>>

InputCover(v) ==
    /\ cover' = v
    /\ errCover' = validateCover(v)
    /\ isDirty' = MarkDirty
    /\ lastRun' = Ran("cover", CoverResult[v])
    /\ lastEvent' = "input"
    /\ defaultPrevented' = FALSE
    /\ UNCHANGED <<fullName, email, portfolio, resume, errName, errEmail,
                   errPortfolio, errResume, filePreview, submitBtn,
                   formStatus, timers, clearedSince>>

InputPortfolio(v) ==
    /\ portfolio' = v
    /\ errPortfolio' = validatePortfolio(v)
    /\ isDirty' = MarkDirty
    /\ lastRun' = Ran("portfolio", PortfolioResult[v])
    /\ lastEvent' = "input"
    /\ defaultPrevented' = FALSE
    /\ UNCHANGED <<fullName, email, cover, resume, errName, errEmail,
                   errCover, errResume, filePreview, submitBtn,
                   formStatus, timers, clearedSince>>

\* the user picks f (or empties the selection): the file input fires input,
\* which bubbles to the form, and then change
ChangeResume(f) ==
    /\ resume' = f
    /\ isDirty' = MarkDirty
    /\ errResume' = validateResume(f)
    /\ filePreview' = ResumePreview(f, filePreview)
    /\ lastRun' = Ran("resume", ResumeResult[f])
    /\ clearedSince' = FALSE
    /\ lastEvent' = "change"
    /\ defaultPrevented' = FALSE
    /\ UNCHANGED <<fullName, email, cover, portfolio, errName, errEmail,
                   errCover, errPortfolio, submitBtn, formStatus, timers>>

\* mutant: the clear-file handler forgets the preview line
ClearFilePreviewKept == filePreview

\* what the clear-file handler leaves of the preview line
ClearFilePreview == [filePreview EXCEPT !.hidden = TRUE]

ClearFile ==
    /\ resume' = NoFile
    /\ filePreview' = ClearFilePreview
    /\ errResume' = clearError
    /\ clearedSince' = TRUE
    /\ lastEvent' = "clear"
    /\ defaultPrevented' = FALSE
    /\ UNCHANGED <<fullName, email, cover, portfolio, errName, errEmail,
                   errCover, errPortfolio, submitBtn, formStatus, isDirty,
                   timers, lastRun>>

----------------------------------------------------------------------------
(* submit *)

\* the five validators' outcomes on the current values
Outcomes ==
    [name |-> NameResult[fullName], email |-> EmailResult[email],
     cover |-> CoverResult[cover], portfolio |-> PortfolioResult[portfolio],
     resume |-> ResumeResult[resume]]

allOk == \A f \in Fields : Outcomes[f].ok

\* mutant: the validators chained with &&, each run only if the earlier
\* ones passed
SubmitErrsShortCircuit ==
    LET o == Outcomes
    IN  [name |-> validateName(fullName),
         email |-> IF o.name.ok THEN validateEmail(email) ELSE errEmail,
         cover |-> IF o.name.ok /\ o.email.ok THEN validateCover(cover) ELSE errCover,
         portfolio |-> IF o.name.ok /\ o.email.ok /\ o.cover.ok
                       THEN validatePortfolio(portfolio) ELSE errPortfolio,
         resume |-> IF o.name.ok /\ o.email.ok /\ o.cover.ok /\ o.portfolio.ok
                    THEN validateResume(resume) ELSE errResume]

\* the error nodes after the handler has called the five validators
SubmitErrs ==
    [name |-> validateName(fullName), email |-> validateEmail(email),
     cover |-> validateCover(cover), portfolio |-> validatePortfolio(portfolio),
     resume |-> validateResume(resume)]

\* mutants: the control left enabled while checking; the control not
\* restored after a failed check
CheckingBtnEnabled == [disabled |-> FALSE, text |-> LabelChecking]
FailedBtnNotRestored == [disabled |-> TRUE, text |-> LabelChecking]

\* the button as the handler leaves it
CheckingBtn == [disabled |-> TRUE, text |-> LabelChecking]
FailedBtn == [disabled |-> FALSE, text |-> LabelSubmit]
FailedStatus == [text |-> MsgFixErrors, color |-> "var(--danger)"]

\* The browser delivers a submit event only while the submit control is
\* enabled (a click on a disabled control and implicit submission through a
\* disabled default button do nothing); the handler itself has no guard.
Submit ==
    /\ ~submitBtn.disabled
    /\ timers < MaxTimers
    /\ errName' = SubmitErrs.name
    /\ errEmail' = SubmitErrs.email
    /\ errCover' = SubmitErrs.cover
    /\ errPortfolio' = SubmitErrs.portfolio
    /\ errResume' = SubmitErrs.resume
    /\ filePreview' = ResumePreview(resume, filePreview)
    /\ lastRun' = [f \in Fields |-> <<Outcomes[f]>>]
    /\ clearedSince' = FALSE
    /\ IF ~allOk
       THEN /\ submitBtn' = FailedBtn
            /\ formStatus' = FailedStatus
            /\ timers' = timers
       ELSE /\ submitBtn' = CheckingBtn
            /\ formStatus' = [formStatus EXCEPT !.text = ""]
            /\ timers' = timers + 1
    /\ lastEvent' = "submit"
    /\ defaultPrevented' = FALSE
    /\ UNCHANGED <<fullName, email, cover, portfolio, resume, isDirty>>

\* mutant: the callback leaves the control disabled
CompletedBtnStillDisabled == [disabled |-> TRUE, text |-> LabelSubmit]

\* the setTimeout callback
CompletedBtn == [disabled |-> FALSE, text |-> LabelSubmit]
CompletedStatus == [text |-> MsgSubmitted, color |-> "var(--success)"]
\* form.reset(): every control back to its default value
ResetValue == <<>>

Complete ==
    /\ timers > 0
    /\ timers' = timers - 1
    /\ submitBtn' = CompletedBtn
    /\ formStatus' = CompletedStatus
    /\ fullName' = ResetValue
    /\ email' = ResetValue
    /\ cover' = ResetValue
    /\ portfolio' = ResetValue
    /\ resume' = NoFile
    /\ filePreview' = [filePreview EXCEPT !.hidden = TRUE]
    /\ lastEvent' = "complete"
    /\ defaultPrevented' = FALSE
    /\ UNCHANGED <<errName, errEmail, errCover, errPortfolio, errResume,
                   isDirty, lastRun, clearedSince>>

----------------------------------------------------------------------------
(* navigation guard *)

\* mutant: the listener prevents the default whatever the flag
UnloadPreventedAlways == TRUE

\* whether the beforeunload listener calls ev.preventDefault()
UnloadPrevented == isDirty

BeforeUnload ==
    /\ defaultPrevented' = UnloadPrevented
    /\ lastEvent' = "beforeunload"
    /\ UNCHANGED <<fullName, email, cover, portfolio, resume, errName,
                   errEmail, errCover, errPortfolio, errResume, filePreview,
                   submitBtn, formStatus, isDirty, timers, lastRun,
                   clearedSince>>

----------------------------------------------------------------------------

Next ==
    \/ \E v \in NameInputs : InputName(v)
    \/ \E v \in EmailInputs : InputEmail(v)
    \/ \E v \in CoverInputs : InputCover(v)
    \/ \E v \in PortfolioInputs : InputPortfolio(v)
    \/ \E f \in FileInputs : ChangeResume(f)
    \/ ClearFile
    \/ Submit
    \/ Complete
    \/ BeforeUnload

Spec == Init /\ [][Next]_vars

\* the timer callback runs once its delay has passed
FairSpec == Spec /\ WF_vars(Complete)

\* the cover-letter validator alone, on every probe
SpecCover == Init /\ [][\E v \in CoverProbes : InputCover(v)]_vars

\* the resume validator alone, on every probe, on the page as loaded
SpecResume ==
    Init /\ [][lastEvent = "load" /\ \E f \in FileProbes : ChangeResume(f)]_vars

----------------------------------------------------------------------------
(* vocabulary of the properties *)

ErrOf ==
    [name |-> errName, email |-> errEmail, cover |-> errCover,
     portfolio |-> errPortfolio, resume |-> errResume]

Shown(field) == ~ErrOf[field].hidden /\ ErrOf[field].text # ""
Cleared(field) == ErrOf[field].hidden /\ ErrOf[field].text = ""

\* the current value of each field passes its validator
Valid ==
    [name |-> NameOutcome(fullName).ok, email |-> EmailOutcome(email).ok,
     cover |-> CoverOutcome(cover).ok, portfolio |-> PortfolioOutcome(portfolio).ok,
     resume |-> ResumeOutcome(resume).ok]

Pending == timers > 0

AllEmpty ==
    /\ fullName = <<>> /\ email = <<>> /\ cover = <<>> /\ portfolio = <<>>
    /\ resume = NoFile

\* length of s without its leading and trailing blanks
TrimmedLength(s) ==
    LET solid == { i \in 1..Len(s) : ~IsSpace(s[i]) }
    IN  IF solid = {} THEN 0
        ELSE (CHOOSE i \in solid : \A j \in solid : j <= i)
             - (CHOOSE i \in solid : \A j \in solid : i <= j) + 1

\* name ends in '.' followed by ext, letter case aside
EndsWithExt(name, ext) ==
    /\ Len(name) > Len(ext)
    /\ name[Len(name) - Len(ext)] = "."
    /\ \A i \in 1..Len(ext) : LowerChar(name[Len(name) - Len(ext) + i]) = ext[i]

HasAllowedExt(name) ==
    \E ext \in { <<"p","d","f">>, <<"d","o","c">>, <<"d","o","c","x">> } :
        EndsWithExt(name, ext)

----------------------------------------------------------------------------
(* C1 *)

\* C1: when the submit handler returns, every field's error slot shows a
\* message exactly when the field's current value fails its validator, so
\* all five validators ran whatever the earlier ones returned.
C1_AllValidatorsRun ==
    lastEvent = "submit" =>
        /\ \A f \in Fields : Shown(f) <=> ~Valid[f]
        /\ \A f \in Fields : Cleared(f) <=> Valid[f]
        /\ (trim(fullName) = <<>> /\ \A f \in Fields \ {"name"} : Valid[f])
               => { f \in Fields : Shown(f) } = {"name"}

\* a submit with an empty name, every other field valid, one error shown
C1_Witness ==
    /\ lastEvent = "submit"
    /\ fullName = <<>>
    /\ \A f \in Fields \ {"name"} : Valid[f] /\ lastRun[f] = <<Pass>>
    /\ resume # NoFile /\ cover # <<>> /\ portfolio # <<>>
    /\ { f \in Fields : Shown(f) } = {"name"}
    /\ errName.text = MsgNameRequired

----------------------------------------------------------------------------
(* C2 *)

CompletedState ==
    /\ ~submitBtn.disabled
    /\ submitBtn.text = LabelSubmit
    /\ formStatus.text = MsgSubmitted
    /\ AllEmpty
    /\ filePreview.hidden

\* C2: a submit with all five validators passing disables the control,
\* labels it "Checking..." and schedules one completion; while the
\* completion is pending the control stays disabled and no success status
\* shows; the completion eventually fires, and right after it the control
\* is enabled with its original label, the success status shows, every
\* field and the file selection are empty and the preview is hidden.
C2_SubmitThenComplete ==
    /\ [][(lastEvent' = "submit" /\ allOk')
            => /\ submitBtn'.disabled
               /\ submitBtn'.text = LabelChecking
               /\ timers' = 1]_vars
    /\ [](Pending => submitBtn.disabled /\ formStatus.text # MsgSubmitted)
    /\ [][Pending /\ ~Pending' => lastEvent' = "complete"]_vars
    /\ [](lastEvent = "complete" => CompletedState)
    /\ (Pending ~> (lastEvent = "complete" /\ CompletedState))

\* the completion of a submit has just fired
C2_Witness ==
    /\ lastEvent = "complete"
    /\ CompletedState
    /\ timers = 0
    /\ \A f \in Fields : lastRun[f] = <<Pass>>

----------------------------------------------------------------------------
(* C3 *)

\* C3: a submit in which some validator fails ends, in the same step, with
\* the control enabled under its original label and the failure status
\* shown; it schedules no completion and changes no field value nor the
\* file selection.
C3_FailedSubmit ==
    [][(lastEvent' = "submit" /\ ~allOk')
         => /\ ~submitBtn'.disabled
            /\ submitBtn'.text = LabelSubmit
            /\ formStatus'.text = MsgFixErrors
            /\ timers' = 0 /\ timers = 0
            /\ values' = values]_vars

\* a submit has just failed
C3_Witness ==
    /\ lastEvent = "submit"
    /\ \E f \in Fields : ~Valid[f]
    /\ formStatus = FailedStatus
    /\ ~submitBtn.disabled
    /\ timers = 0

----------------------------------------------------------------------------
(* C4 *)

\* the error node of field is what the latest run of its validator left
MatchesLastRun(field) ==
    lastRun[field] # <<>> =>
        LET r == lastRun[field][1]
        IN  /\ r.ok => Cleared(field)
            /\ ~r.ok => Shown(field) /\ ErrOf[field].text = r.msg

\* C4 as claimed: in every reachable state each field's error slot matches
\* the latest run of the field's validator.
C4_Original == \A f \in Fields : MatchesLastRun(f)

\* C4, amended: each field's error slot matches the latest run of the
\* field's validator, except that after a clear-file action the resume
\* error slot is cleared until the resume validator runs again.
C4_ErrorMatchesLastRun ==
    /\ \A f \in Fields \ {"resume"} : MatchesLastRun(f)
    /\ clearedSince => Cleared("resume")
    /\ ~clearedSince => MatchesLastRun("resume")
    /\ \A f \in Fields : lastRun[f] = <<>> => Cleared(f)

\* the resume validator failed, then clear-file cleared its message
C4_Witness ==
    /\ clearedSince
    /\ lastRun.resume # <<>>
    /\ ~lastRun.resume[1].ok
    /\ Cleared("resume")
    /\ \E f \in Fields \ {"resume"} : Shown(f)

----------------------------------------------------------------------------
(* C5 *)

\* C5: the resume validator answers Required when no file is selected;
\* else TooLarge exactly when the size exceeds 2,097,152; else InvalidType
\* exactly when neither the content-type is allowed nor the name ends in
\* .pdf, .doc or .docx (letter case aside); else success.  resume.PDF with
\* an empty content-type passes, resume.txt with text/plain does not.
C5_ResumeDecision ==
    lastRun.resume # <<>> =>
        LET r == lastRun.resume[1]
            typeOk == resume.type \in ALLOWED_MIME
        IN  /\ r = IF resume = NoFile THEN Fail(MsgResumeRequired)
                   ELSE IF resume.size > 2097152 THEN Fail(MsgResumeTooLarge)
                   ELSE IF ~typeOk /\ ~HasAllowedExt(resume.name) THEN Fail(MsgResumeType)
                   ELSE Pass
            /\ errResume = (IF r.ok THEN clearError ELSE showError(r.msg))
            /\ (resume # NoFile /\ resume.size = 2097152) => r.msg # MsgResumeTooLarge
            /\ (resume # NoFile /\ resume.size = 2097153) => r.msg = MsgResumeTooLarge
            /\ ( /\ resume.name = <<"r","e","s","u","m","e",".","P","D","F">>
                 /\ resume.type = "" /\ resume.size <= 2097152 ) => r.ok
            /\ ( /\ resume.name = <<"r","e","s","u","m","e",".","t","x","t">>
                 /\ resume.type = "text/plain" /\ resume.size <= 2097152 )
                    => r.msg = MsgResumeType

\* resume.PDF of exactly 2,097,152 bytes with no content-type was accepted
C5_Witness ==
    /\ lastRun.resume = <<Pass>>
    /\ resume = File(<<"r","e","s","u","m","e",".","P","D","F">>, 2097152, "")
    /\ ~filePreview.hidden

----------------------------------------------------------------------------
(* C6 *)

\* C6 as claimed: the cover-letter validator passes the empty string, fails
\* every string of length 1 to 19 and passes every string of length 20 or
\* more.
C6_Original ==
    lastRun.cover # <<>> =>
        (lastRun.cover[1].ok <=> (Len(cover) = 0 \/ Len(cover) >= 20))

\* C6, amended: with lengths taken after removing leading and trailing
\* blanks, the cover-letter validator passes length 0, fails lengths 1 to
\* 19 and passes length 20 or more.
C6_CoverByTrimmedLength ==
    lastRun.cover # <<>> =>
        /\ lastRun.cover[1].ok <=>
              (TrimmedLength(cover) = 0 \/ TrimmedLength(cover) >= 20)
        /\ ~lastRun.cover[1].ok => errCover = showError(MsgCoverShort)
        /\ lastRun.cover[1].ok => errCover = clearError

\* a value of 20 or more characters whose trimmed length is under 20 failed
C6_Witness ==
    /\ lastRun.cover # <<>>
    /\ Len(cover) >= 20
    /\ TrimmedLength(cover) \in 1..19
    /\ ~lastRun.cover[1].ok
    /\ Shown("cover")

----------------------------------------------------------------------------
(* C7 *)

\* C7: the dirty flag is false at load, true after every input event, and
\* never goes back to false; it rises only on an input event.  A
\* before-unload event asks for the confirmation exactly when the flag is
\* true and changes nothing else.
C7_DirtyFlag ==
    /\ ~isDirty
    /\ [](lastEvent \in {"input", "change"} => isDirty)
    /\ [][isDirty => isDirty']_vars
    /\ [][(~isDirty /\ isDirty') => lastEvent' \in {"input", "change"}]_vars
    /\ [](lastEvent = "beforeunload" => (defaultPrevented <=> isDirty))
    /\ [][lastEvent' = "beforeunload"
            => UNCHANGED <<values, errs, filePreview, submitBtn, formStatus,
                           isDirty, timers>>]_vars

\* the flag is still set after a completion reset the form, and the
\* before-unload event asked for the confirmation
C7_Witness ==
    /\ lastEvent = "beforeunload"
    /\ defaultPrevented
    /\ isDirty
    /\ formStatus.text = MsgSubmitted
    /\ AllEmpty

----------------------------------------------------------------------------
(* C8 *)

\* C8: while a completion is pending the submit control is disabled, so at
\* most one completion is pending; a completion is scheduled only by a
\* submit, one at a time, and leaves the pending set only by firing.
C8_NoResubmission ==
    /\ [](timers <= 1)
    /\ [](Pending => submitBtn.disabled)
    /\ [][timers' > timers => (lastEvent' = "submit" /\ timers' = timers + 1)]_vars
    /\ [][timers' < timers => (lastEvent' = "complete" /\ timers' = timers - 1)]_vars

\* input, file-change or clear-file arrived while the completion is pending
C8_Witness ==
    /\ timers = 1
    /\ submitBtn.disabled
    /\ lastEvent = "clear"
    /\ fullName # <<"A", "l">>

----------------------------------------------------------------------------
(* C9 *)

\* C9: right after a completion fires the success status shows, every
\* field is empty and every one of the five error slots is cleared.
C9_CleanAfterCompletion ==
    lastEvent = "complete" =>
        /\ formStatus.text = MsgSubmitted
        /\ AllEmpty
        /\ \A f \in Fields : Cleared(f)

----------------------------------------------------------------------------
(* C10 *)

\* C10: whenever the preview line is visible a file is selected, the file
\* passes the resume validator, the line reads "Selected: <name> (<size>)"
\* for that file and the resume error slot is cleared; the line is hidden
\* after a failed resume validation, a clear-file and a completion.
C10_PreviewMatchesFile ==
    /\ ~filePreview.hidden =>
          /\ resume # NoFile
          /\ resume.size <= 2097152
          /\ resume.type \in ALLOWED_MIME \/ HasAllowedExt(resume.name)
          /\ filePreview.text = PreviewText(resume)
          /\ Cleared("resume")
    /\ ( /\ ~filePreview.hidden
         /\ resume.name = <<"r","e","s","u","m","e",".","P","D","F">>
         /\ resume.size = 2097152 )
            => filePreview.text = "Selected: resume.PDF (2.0 MB)"
    /\ lastEvent \in {"clear", "complete"} => filePreview.hidden
    /\ (lastRun.resume # <<>> /\ ~lastRun.resume[1].ok /\ ~clearedSince)
            => filePreview.hidden

\* the preview of a selected file is on display after a submit
C10_Witness ==
    /\ ~filePreview.hidden
    /\ resume # NoFile
    /\ lastEvent = "submit"
    /\ filePreview.text = "Selected: cv.pdf (1.5 KB)"

====
